---- MODULE Spec2Model ----
(***************************************************************************)
(* Model of miLight-adapter.js: the property store (miLightProperty), the  *)
(* device state machine (miLightDevice), the adapter registry and the UDP  *)
(* transport sender (miLightAdapter), and the command codec (levelToCmd,   *)
(* cssToCmd).  Each action is one run-to-completion handler of the Node    *)
(* event loop: a host call, a timer callback or a socket callback.         *)
(***************************************************************************)
EXTENDS Integers, Sequences, FiniteSets, TLC

VARIABLES
    bulbs,     \* manifest.moziot.config.bulbs: the configured bulbs
    devices,   \* adapter.devices: registered id -> device (config, properties, recentlyUpdated)
    pending,   \* timers armed by sleep(100) and not yet fired, in arming order
    sent,      \* the datagrams the last handler handed to client.send, in order
    bridge,    \* per device id, the latest commands that went out for it
    inflight,  \* sockets whose client.send callback has not run yet
    leaked,    \* sockets created by a sendProperties that threw before client.send
    nmut,      \* number of accepted (value-changing) host mutations so far
    unhandled, \* promise rejections nobody handles (nested setValue, timer callback)
    last       \* the handler that ran last: its inputs, the state it found, its outcome

vars == <<bulbs, devices, pending, sent, bridge, inflight, leaked, nmut, unhandled, last>>

----------------------------------------------------------------------------
(* Bounds of the model *)

\* accepted mutations explored per behaviour
MaxMut == 3

\* mutations the host makes in one behaviour of the two-bulb adapter
MaxMutPair == 2

\* sockets with a send in progress at one time
MaxInflight == 2

----------------------------------------------------------------------------
(* Input domains *)

Zones == 0 .. 4
Levels == {0, 1, 50}
CssColors == {"#ffffff", "#ff0000", "#123456", "nocolor"}
AllLevels == 0 .. 100

----------------------------------------------------------------------------
(* JavaScript values *)

\* a property read from an object that does not have it
Undefined == -1
\* the value null (cssToCmd's "no command")
null == [null |-> TRUE]
\* the object literal {}
EmptyObject == [k \in {} |-> Undefined]

\* obj.k
Get(obj, k) == IF k \in DOMAIN obj THEN obj[k] ELSE Undefined

\* Object.assign(target, source): copies source's own fields; a null source copies none
ObjectAssign(target, source) ==
    IF source = null THEN target
    ELSE [k \in (DOMAIN target) \cup (DOMAIN source) |->
             IF k \in DOMAIN source THEN source[k] ELSE target[k]]

\* An element of the array given to Buffer.from: undefined becomes 0, a number is taken mod 256
ToUint8(v) == IF v = Undefined THEN 0 ELSE v % 256

\* Math.round(level / 4) for a non-negative integer level (halves round up)
MathRoundQuarter(level) == (level + 2) \div 4

----------------------------------------------------------------------------
(* Command codec *)

whiteCodes == <<194, 197, 199, 201, 203>>
onCodes == <<66, 69, 71, 73, 75>>
offCodes == <<65, 70, 72, 74, 76>>

\* Mutant of levelToCmd: Math.floor in place of Math.round
levelToCmdFloor(level, zone) ==
    IF level > 0
    THEN [code |-> 78, param |-> level \div 4]
    ELSE EmptyObject

\* Mutant of levelToCmd: the level is halved, not quartered
levelToCmdHalf(level, zone) ==
    IF level > 0
    THEN [code |-> 78, param |-> (level + 1) \div 2]
    ELSE EmptyObject

levelToCmd(level, zone) ==
    IF level > 0
    THEN [code |-> 78, param |-> MathRoundQuarter(level)]
    ELSE EmptyObject

\* Color(cssColor) could not parse the string and threw
ParseFailure == -1

HexChars == "0123456789abcdef"
HexCharsUpper == "0123456789ABCDEF"
IsHexChar(c) ==
    \E i \in 1 .. 16 : SubSeq(HexChars, i, i) = c \/ SubSeq(HexCharsUpper, i, i) = c
HexValue(c) ==
    (CHOOSE i \in 1 .. 16 : SubSeq(HexChars, i, i) = c \/ SubSeq(HexCharsUpper, i, i) = c) - 1
CharAt(str, i) == SubSeq(str, i, i)

\* the CSS keywords of the palette
ColorNames ==
    [black |-> 0, navy |-> 128, blue |-> 255, green |-> 32768, lime |-> 65280,
     aqua |-> 65535, purple |-> 8388736, red |-> 16711680, orange |-> 16753920,
     yellow |-> 16776960, white |-> 16777215]

\* Color(cssColor).rgbNumber(): "#rrggbb", "#rgb" and keywords; anything else throws
rgbNumber(cssColor) ==
    IF Len(cssColor) = 7 /\ CharAt(cssColor, 1) = "#"
       /\ \A i \in 2 .. 7 : IsHexChar(CharAt(cssColor, i))
    THEN LET h(i) == HexValue(CharAt(cssColor, i))
         IN  ((h(2) * 16 + h(3)) * 256 + (h(4) * 16 + h(5))) * 256 + (h(6) * 16 + h(7))
    ELSE IF Len(cssColor) = 4 /\ CharAt(cssColor, 1) = "#"
            /\ \A i \in 2 .. 4 : IsHexChar(CharAt(cssColor, i))
    THEN LET h(i) == HexValue(CharAt(cssColor, i))
         IN  (h(2) * 17 * 256 + h(3) * 17) * 256 + h(4) * 17
    ELSE IF cssColor \in DOMAIN ColorNames
    THEN ColorNames[cssColor]
    ELSE ParseFailure

\* Mutant of cssToCmd: white takes the code of zone 0 whatever the zone
cssToCmdWhiteZone0(cssColor, zone) ==
    LET n == rgbNumber(cssColor)
    IN  CASE n = 0        -> null
          [] n = 128      -> [code |-> 64, param |-> 0]
          [] n = 255      -> [code |-> 64, param |-> 186]
          [] n = 32768    -> [code |-> 64, param |-> 122]
          [] n = 65280    -> [code |-> 64, param |-> 84]
          [] n = 65535    -> [code |-> 64, param |-> 133]
          [] n = 8388736  -> [code |-> 64, param |-> 217]
          [] n = 16711680 -> [code |-> 64, param |-> 255]
          [] n = 16753920 -> [code |-> 64, param |-> 30]
          [] n = 16776960 -> [code |-> 64, param |-> 59]
          [] n = 16777215 -> [code |-> whiteCodes[1], param |-> 0]
          [] OTHER        -> null

\* cssToCmd for a string Color() parses; zone indexes whiteCodes from 0
cssToCmd(cssColor, zone) ==
    LET n == rgbNumber(cssColor)
    IN  CASE n = 0        -> null
          [] n = 128      -> [code |-> 64, param |-> 0]
          [] n = 255      -> [code |-> 64, param |-> 186]
          [] n = 32768    -> [code |-> 64, param |-> 122]
          [] n = 65280    -> [code |-> 64, param |-> 84]
          [] n = 65535    -> [code |-> 64, param |-> 133]
          [] n = 8388736  -> [code |-> 64, param |-> 217]
          [] n = 16711680 -> [code |-> 64, param |-> 255]
          [] n = 16753920 -> [code |-> 64, param |-> 30]
          [] n = 16776960 -> [code |-> 64, param |-> 59]
          [] n = 16777215 -> [code |-> whiteCodes[zone + 1], param |-> 0]
          [] OTHER        -> null

\* the properties of the dimmableColorLight template, with their initial values
TemplateProperties == [color |-> "#ffffff", level |-> 0, on |-> FALSE]

----------------------------------------------------------------------------
(* The state a handler works on.  A handler runs to completion; W carries  *)
(* the adapter's state through its calls:                                  *)
(*   devices, pending, bridge, inflight, leaked, unhandled: as the         *)
(*     variables                                                           *)
(*   sent: the datagrams handed to client.send so far in this handler      *)
(*   notes: the property-changed notifications passed to the host          *)
(*   threw: an exception is propagating out of the current call            *)
(***************************************************************************)

World(devs, pend, br, infl, lk, unh) ==
    [devices |-> devs, pending |-> pend, bridge |-> br, inflight |-> infl,
     leaked |-> lk, unhandled |-> unh, sent |-> <<>>, notes |-> <<>>, threw |-> FALSE]

\* Device.notifyPropertyChanged of the host library: hands the property to the host
superNotifyPropertyChanged(W, id, name) ==
    [W EXCEPT !.notes = Append(@, [id |-> id, name |-> name,
                                   value |-> W.devices[id].properties[name]])]

\* What a datagram <<code, param, 0x55>> makes of the latest commands that went out
\* for a device: power, the latest on/off command; dim, the param of the latest 0x4E
Received(b, zone, message) ==
    [power |-> IF message[1] = onCodes[zone + 1] THEN "on"
               ELSE IF message[1] = offCodes[zone + 1] THEN "off"
               ELSE b.power,
     dim |-> IF message[1] = 78 THEN message[2] ELSE b.dim]

\* Mutant of sendProperties: the datagram is handed to the socket twice
sendPropertiesTwice(W, deviceId, cmd, m) ==
    LET message == <<ToUint8(Get(cmd, "code")), ToUint8(Get(cmd, "param")), 85>>
    IN  IF deviceId \in DOMAIN W.devices
        THEN LET dev == W.devices[deviceId]
                 datagram == [id |-> deviceId, message |-> message,
                              port |-> dev.config.bridgePort,
                              address |-> dev.config.bridgeIP, mut |-> m]
             IN  [W EXCEPT !.devices[deviceId].recentlyUpdated = TRUE,
                           !.sent = Append(Append(@, datagram), datagram),
                           !.bridge[deviceId] = Received(@, dev.config.zone, message),
                           !.inflight = @ + 2]
        ELSE [W EXCEPT !.leaked = @ + 1, !.threw = TRUE]

\* Mutant of sendProperties: the datagram goes out but recentlyUpdated is left alone
sendPropertiesNoFlag(W, deviceId, cmd, m) ==
    LET message == <<ToUint8(Get(cmd, "code")), ToUint8(Get(cmd, "param")), 85>>
    IN  IF deviceId \in DOMAIN W.devices
        THEN LET dev == W.devices[deviceId]
             IN  [W EXCEPT !.sent = Append(@, [id |-> deviceId, message |-> message,
                                               port |-> dev.config.bridgePort,
                                               address |-> dev.config.bridgeIP,
                                               mut |-> m]),
                           !.bridge[deviceId] = Received(@, dev.config.zone, message),
                           !.inflight = @ + 1]
        ELSE [W EXCEPT !.leaked = @ + 1, !.threw = TRUE]

\* Mutant of sendProperties: every registered device is flagged recentlyUpdated
sendPropertiesFlagsAll(W, deviceId, cmd, m) ==
    LET message == <<ToUint8(Get(cmd, "code")), ToUint8(Get(cmd, "param")), 85>>
    IN  IF deviceId \in DOMAIN W.devices
        THEN LET dev == W.devices[deviceId]
             IN  [W EXCEPT !.devices = [id \in DOMAIN W.devices |->
                                           [W.devices[id] EXCEPT !.recentlyUpdated = TRUE]],
                           !.sent = Append(@, [id |-> deviceId, message |-> message,
                                               port |-> dev.config.bridgePort,
                                               address |-> dev.config.bridgeIP,
                                               mut |-> m]),
                           !.bridge[deviceId] = Received(@, dev.config.zone, message),
                           !.inflight = @ + 1]
        ELSE [W EXCEPT !.leaked = @ + 1, !.threw = TRUE]

\* miLightAdapter.sendProperties; m is the number of the mutation that caused the command
sendProperties(W, deviceId, cmd, m) ==
    LET message == <<ToUint8(Get(cmd, "code")), ToUint8(Get(cmd, "param")), 85>>
    IN  IF deviceId \in DOMAIN W.devices
        THEN LET dev == W.devices[deviceId]
             IN  [W EXCEPT !.devices[deviceId].recentlyUpdated = TRUE,
                           !.sent = Append(@, [id |-> deviceId, message |-> message,
                                               port |-> dev.config.bridgePort,
                                               address |-> dev.config.bridgeIP,
                                               mut |-> m]),
                           !.bridge[deviceId] = Received(@, dev.config.zone, message),
                           !.inflight = @ + 1]
        \* this.devices[deviceId] is undefined: reading .config throws, the socket stays open
        ELSE [W EXCEPT !.leaked = @ + 1, !.threw = TRUE]

\* Mutant of notifyStateChanged: the on and off tables are swapped
notifyStateChangedSwapped(W, id, name, m) ==
    LET W1 == superNotifyPropertyChanged(W, id, name)
        dev == W1.devices[id]
    IN  IF name = "on"
        THEN sendProperties(W1, id,
                 [code |-> IF dev.properties[name] = FALSE
                           THEN onCodes[dev.config.zone + 1]
                           ELSE offCodes[dev.config.zone + 1],
                  param |-> 0], m)
        ELSE W1

\* miLightDevice.notifyStateChanged
notifyStateChanged(W, id, name, m) ==
    LET W1 == superNotifyPropertyChanged(W, id, name)
        dev == W1.devices[id]
    IN  IF name = "on"
        THEN sendProperties(W1, id,
                 [code |-> IF dev.properties[name] = FALSE
                           THEN offCodes[dev.config.zone + 1]
                           ELSE onCodes[dev.config.zone + 1],
                  param |-> 0], m)
        ELSE W1

\* A promise nobody awaits: a rejection is left unhandled and the caller goes on
Dropped(W) ==
    IF W.threw THEN [W EXCEPT !.threw = FALSE, !.unhandled = @ + 1] ELSE W

\* sleep(100).then(callback): the callback runs in a later turn of the event loop
sleepThen(W, id, cmd, m) ==
    [W EXCEPT !.pending = Append(@, [id |-> id, cmd |-> cmd, mut |-> m])]

RECURSIVE setValue(_, _, _, _, _)

\* Mutant of notifyPropertyChanged: level 0 is treated like any other level
notifyPropertyChangedNoZero(W, id, name, m) ==
    LET W1 == superNotifyPropertyChanged(W, id, name)
        dev == W1.devices[id]
        zone == dev.config.zone
    IN  CASE name = "color" ->
               IF rgbNumber(dev.properties["color"]) = ParseFailure
               THEN [W1 EXCEPT !.threw = TRUE]
               ELSE sendProperties(W1, id,
                        ObjectAssign(EmptyObject, cssToCmd(dev.properties["color"], zone)), m)
          [] name = "level" ->
               LET cmd == ObjectAssign(EmptyObject,
                                       levelToCmd(dev.properties["level"], zone))
               IN  IF dev.properties["on"] = FALSE
                   THEN sleepThen(Dropped(setValue(W1, id, "on", TRUE, m)), id, cmd, m)
                   ELSE sendProperties(W1, id, cmd, m)
          [] OTHER -> W1

\* Mutant of notifyPropertyChanged: the level command goes out at once, with no sleep(100)
notifyPropertyChangedNoDelay(W, id, name, m) ==
    LET W1 == superNotifyPropertyChanged(W, id, name)
        dev == W1.devices[id]
        zone == dev.config.zone
    IN  CASE name = "color" ->
               IF rgbNumber(dev.properties["color"]) = ParseFailure
               THEN [W1 EXCEPT !.threw = TRUE]
               ELSE sendProperties(W1, id,
                        ObjectAssign(EmptyObject, cssToCmd(dev.properties["color"], zone)), m)
          [] name = "level" ->
               IF 0 = dev.properties[name]
               THEN Dropped(setValue(W1, id, "on", FALSE, m))
               ELSE LET cmd == ObjectAssign(EmptyObject,
                                            levelToCmd(dev.properties["level"], zone))
                    IN  IF dev.properties["on"] = FALSE
                        THEN sendProperties(Dropped(setValue(W1, id, "on", TRUE, m)), id, cmd, m)
                        ELSE sendProperties(W1, id, cmd, m)
          [] OTHER -> W1

\* miLightDevice.notifyPropertyChanged
notifyPropertyChanged(W, id, name, m) ==
    LET W1 == superNotifyPropertyChanged(W, id, name)
        dev == W1.devices[id]
        zone == dev.config.zone
    IN  CASE name = "color" ->
               IF rgbNumber(dev.properties["color"]) = ParseFailure
               THEN [W1 EXCEPT !.threw = TRUE]
               ELSE sendProperties(W1, id,
                        ObjectAssign(EmptyObject, cssToCmd(dev.properties["color"], zone)), m)
          [] name = "level" ->
               IF 0 = dev.properties[name]
               THEN Dropped(setValue(W1, id, "on", FALSE, m))
               ELSE LET cmd == ObjectAssign(EmptyObject,
                                            levelToCmd(dev.properties["level"], zone))
                    IN  IF dev.properties["on"] = FALSE
                        THEN sleepThen(Dropped(setValue(W1, id, "on", TRUE, m)), id, cmd, m)
                        ELSE sendProperties(W1, id, cmd, m)
          [] OTHER -> W1

\* Mutant of setValue: the notification fires whether or not the value changed
setValueAlwaysNotifies(W, id, name, value, m) ==
    LET W1 == [W EXCEPT !.devices[id].properties[name] = value]
    IN  IF name = "on"
        THEN notifyStateChanged(W1, id, name, m)
        ELSE notifyPropertyChanged(W1, id, name, m)

\* Mutant of setValue: the notification runs first, the cache is updated after it
setValueNotifiesFirst(W, id, name, value, m) ==
    LET changed == W.devices[id].properties[name] # value
        W1 == IF changed
              THEN IF name = "on"
                   THEN notifyStateChanged(W, id, name, m)
                   ELSE notifyPropertyChanged(W, id, name, m)
              ELSE W
    IN  [W1 EXCEPT !.devices[id].properties[name] = value]

\* miLightProperty.setValue: the body of the promise executor
setValue(W, id, name, value, m) ==
    LET changed == W.devices[id].properties[name] # value
        W1 == [W EXCEPT !.devices[id].properties[name] = value]
    IN  IF changed
        THEN IF name = "on"
             THEN notifyStateChanged(W1, id, name, m)
             ELSE notifyPropertyChanged(W1, id, name, m)
        ELSE W1

----------------------------------------------------------------------------
(* Construction *)

Config(zone, ip) == [zone |-> zone, bridgeIP |-> ip, bridgePort |-> 8899]

\* manifest.moziot.config.bulbs: the configurations the adapter is started with
Manifests == { <<Config(zone, "10.0.0.1")>> : zone \in Zones }

\* 'miLight-adapter-' + i.toString(), i counted from 0
DeviceId(i) == IF i = 0 THEN "miLight-adapter-0" ELSE "miLight-adapter-1"

\* the ids the constructor gives the configured bulbs
DevIds == {DeviceId(i - 1) : i \in 1 .. Len(bulbs)}

\* new miLightDevice(adapter, id, template, config): recentlyUpdated is not set yet (falsy)
miLightDevice(config) ==
    [config |-> config, properties |-> TemplateProperties, recentlyUpdated |-> FALSE]

\* nothing has been sent for a device yet
NothingReceived == [power |-> "unknown", dim |-> Undefined]

\* what the last handler was given, the state it found and what it produced
Last(op, id, name, value, changed, outcome, result, notes) ==
    [op |-> op, id |-> id, name |-> name, value |-> value, changed |-> changed,
     outcome |-> outcome, result |-> result, notes |-> notes,
     before |-> devices, npending |-> Len(pending)]

\* new miLightAdapter(adapterManager, manifest): one addDevice per configured bulb
Init ==
    /\ bulbs \in Manifests
    /\ devices = [id \in DevIds |->
                     miLightDevice(bulbs[IF id = DeviceId(0) THEN 1 ELSE 2])]
    /\ pending = <<>>
    /\ sent = <<>>
    /\ bridge = [id \in DevIds |-> NothingReceived]
    /\ inflight = 0
    /\ leaked = 0
    /\ nmut = 0
    /\ unhandled = 0
    /\ last = [op |-> "constructor", id |-> "", name |-> "", value |-> 0,
               changed |-> FALSE, outcome |-> "returned", result |-> Undefined,
               notes |-> <<>>, before |-> <<>>, npending |-> 0]

----------------------------------------------------------------------------
(* Handlers *)

\* The values the host may give a property
ValuesOf(name) ==
    CASE name = "on" -> BOOLEAN
      [] name = "level" -> Levels
      [] name = "color" -> CssColors

PropertyNames == {"on", "level", "color"}

Commit(W) ==
    /\ devices' = W.devices
    /\ pending' = W.pending
    /\ sent' = W.sent
    /\ bridge' = W.bridge
    /\ inflight' = W.inflight
    /\ leaked' = W.leaked
    /\ unhandled' = W.unhandled

\* the number of mutations explored, by the size of the manifest
MutBound == IF Len(bulbs) = 1 THEN MaxMut ELSE MaxMutPair

\* The host sets property `name` of registered device `id` to `value`:
\* device.properties.get(name).setValue(value), and the promise it returns
SetValue(id, name, value) ==
    /\ id \in DOMAIN devices
    /\ nmut < MutBound
    /\ inflight < MaxInflight
    /\ LET W0 == World(devices, pending, bridge, inflight, leaked, unhandled)
           changed == devices[id].properties[name] # value
           W == setValue(W0, id, name, value, nmut + 1)
       IN  /\ Commit(W)
           /\ nmut' = IF changed THEN nmut + 1 ELSE nmut
           /\ last' = Last("setValue", id, name, value, changed,
                           IF W.threw THEN "rejected" ELSE "resolved",
                           IF W.threw THEN Undefined ELSE W.devices[id].properties[name],
                           W.notes)
    /\ UNCHANGED bulbs

\* The oldest sleep(100) timer fires: its callback sends the command it captured
TimerFires ==
    /\ pending # <<>>
    /\ inflight < MaxInflight
    /\ LET t == Head(pending)
           W0 == World(devices, Tail(pending), bridge, inflight, leaked, unhandled)
           W == sendProperties(W0, t.id, t.cmd, t.mut)
       IN  /\ Commit(Dropped(W))
           /\ last' = Last("timer", t.id, "level", t.cmd, FALSE,
                           IF W.threw THEN "threw" ELSE "returned", Undefined, W.notes)
    /\ UNCHANGED <<bulbs, nmut>>

\* The callback of a client.send runs: client.close(), whatever err is
SendCallback(err) ==
    /\ inflight > 0
    /\ inflight' = inflight - 1
    /\ sent' = <<>>
    /\ last' = Last("sendCallback", "", "", 0, FALSE, "returned", Undefined, <<>>)
    /\ UNCHANGED <<bulbs, devices, pending, bridge, leaked, nmut, unhandled>>

\* Mutant of AddDevice: an id already registered is given a new device, not rejected
AddDeviceOverwrites(i) ==
    LET deviceId == DeviceId(i)
    IN  /\ sent' = <<>>
        /\ devices' = [id \in (DOMAIN devices) \cup {deviceId} |->
                          IF id = deviceId THEN miLightDevice(bulbs[i + 1])
                          ELSE devices[id]]
        /\ last' = Last("addDevice", deviceId, "", bulbs[i + 1], FALSE,
                        "resolved", Undefined, <<>>)
        /\ UNCHANGED <<bulbs, pending, bridge, inflight, leaked, nmut, unhandled>>

\* miLightAdapter.addDevice('miLight-adapter-' + i, dimmableColorLight, bulbs[i])
\* (handleDeviceAdded registers the device under its id)
AddDevice(i) ==
    LET deviceId == DeviceId(i)
    IN  /\ sent' = <<>>
        /\ IF deviceId \in DOMAIN devices
           THEN /\ UNCHANGED devices
                /\ last' = Last("addDevice", deviceId, "", bulbs[i + 1], FALSE,
                                "rejected", Undefined, <<>>)
           ELSE /\ devices' = [id \in (DOMAIN devices) \cup {deviceId} |->
                                  IF id = deviceId THEN miLightDevice(bulbs[i + 1])
                                  ELSE devices[id]]
                /\ last' = Last("addDevice", deviceId, "", bulbs[i + 1], FALSE,
                                "resolved", Undefined, <<>>)
        /\ UNCHANGED <<bulbs, pending, bridge, inflight, leaked, nmut, unhandled>>

\* miLightAdapter.removeDevice (handleDeviceRemoved deletes the id from the registry)
RemoveDevice(deviceId) ==
    /\ sent' = <<>>
    /\ IF deviceId \in DOMAIN devices
       THEN /\ devices' = [id \in (DOMAIN devices) \ {deviceId} |-> devices[id]]
            /\ last' = Last("removeDevice", deviceId, "", 0, FALSE,
                            "resolved", Undefined, <<>>)
       ELSE /\ UNCHANGED devices
            /\ last' = Last("removeDevice", deviceId, "", 0, FALSE,
                            "rejected", Undefined, <<>>)
    /\ UNCHANGED <<bulbs, pending, bridge, inflight, leaked, nmut, unhandled>>

Next ==
    \/ \E id \in DevIds, name \in PropertyNames :
           \E value \in ValuesOf(name) : SetValue(id, name, value)
    \/ TimerFires
    \/ \E err \in BOOLEAN : SendCallback(err)
    \/ \E i \in 0 .. Len(bulbs) - 1 : AddDevice(i)
    \/ \E id \in DevIds : RemoveDevice(id)

Spec == Init /\ [][Next]_vars

----------------------------------------------------------------------------
(* The codec on its own: SpecCodec calls levelToCmd and cssToCmd on every  *)
(* input of the bounded domains and keeps the call and its result in last. *)
(***************************************************************************)

\* the strings cssToCmd is called with: the palette, black, others, three notations
CodecColors ==
    {"#000000", "#000080", "#0000ff", "#008000", "#00ff00", "#00ffff", "#800080",
     "#ff0000", "#ffa500", "#ffff00", "#ffffff", "#FFFFFF", "#fff", "white", "red",
     "black", "#123456", "#fffffe", "#000001", "#808080"}

InitCodec ==
    /\ bulbs = <<>>
    /\ devices = <<>>
    /\ pending = <<>>
    /\ sent = <<>>
    /\ bridge = <<>>
    /\ inflight = 0
    /\ leaked = 0
    /\ nmut = 0
    /\ unhandled = 0
    /\ last = [op |-> "none", id |-> "", name |-> "", value |-> 0,
               changed |-> FALSE, outcome |-> "returned", result |-> Undefined,
               notes |-> <<>>, before |-> <<>>, npending |-> 0]

CallLevelToCmd(level, zone) ==
    /\ last' = Last("levelToCmd", "", "level", [level |-> level, zone |-> zone], FALSE,
                    "returned", levelToCmd(level, zone), <<>>)
    /\ UNCHANGED <<bulbs, devices, pending, sent, bridge, inflight, leaked, nmut, unhandled>>

CallCssToCmd(cssColor, zone) ==
    /\ last' = Last("cssToCmd", "", "color", [cssColor |-> cssColor, zone |-> zone], FALSE,
                    "returned", cssToCmd(cssColor, zone), <<>>)
    /\ UNCHANGED <<bulbs, devices, pending, sent, bridge, inflight, leaked, nmut, unhandled>>

NextCodec ==
    \/ \E level \in AllLevels, zone \in Zones : CallLevelToCmd(level, zone)
    \/ \E cssColor \in CodecColors, zone \in Zones : CallCssToCmd(cssColor, zone)

SpecCodec == InitCodec /\ [][NextCodec]_vars

----------------------------------------------------------------------------
(* Two bulbs: the adapter started with a manifest of two configurations *)

\* manifests of two bulbs: on two bridges, and in two zones of one bridge
PairManifests ==
    { <<Config(1, "10.0.0.1"), Config(2, "10.0.0.2")>>,
      <<Config(0, "10.0.0.1"), Config(4, "10.0.0.1")>> }

\* new miLightAdapter(adapterManager, manifest) with two bulbs: two addDevice calls
InitPair ==
    /\ bulbs \in PairManifests
    /\ devices = [id \in DevIds |->
                     miLightDevice(bulbs[IF id = DeviceId(0) THEN 1 ELSE 2])]
    /\ pending = <<>>
    /\ sent = <<>>
    /\ bridge = [id \in DevIds |-> NothingReceived]
    /\ inflight = 0
    /\ leaked = 0
    /\ nmut = 0
    /\ unhandled = 0
    /\ last = [op |-> "constructor", id |-> "", name |-> "", value |-> 0,
               changed |-> FALSE, outcome |-> "returned", result |-> Undefined,
               notes |-> <<>>, before |-> <<>>, npending |-> 0]

SpecPair == InitPair /\ [][Next]_vars

----------------------------------------------------------------------------
(* Properties.  They are stated on the state a handler leaves: `last` holds *)
(* the call and the state it found, `sent` the datagrams it handed to the   *)
(* socket, `pending` the timers armed and not yet fired.                    *)
(***************************************************************************)

\* the last handler was the host's setValue on property `name`
HostSet(name) == last.op = "setValue" /\ last.name = name

\* the device the last handler was about, before and after it
Before == last.before[last.id]
After == devices[last.id]

\* the timers the last handler armed
Armed == SubSeq(pending, last.npending + 1, Len(pending))

\* p is L / 4 rounded to the nearest integer, halves up
IsRound(p, L) == 4 * p - 2 <= L /\ L < 4 * p + 2

\* the bytes of the datagrams the last handler sent
Messages == [i \in 1 .. Len(sent) |-> sent[i].message]

\* C1: setting a property to the value it already holds fires no notification, sends no
\* datagram, arms no timer, leaves the echo-guard flag and every stored value as they were
C1_Idempotence ==
    (last.op = "setValue" /\ ~last.changed) =>
        /\ last.notes = <<>>
        /\ sent = <<>>
        /\ Armed = <<>>
        /\ devices = last.before
        /\ last.outcome = "resolved"

\* C1 witness: on is set to true while it is true (scenario 5)
C1_Witness ==
    /\ HostSet("on") /\ ~last.changed
    /\ last.value = TRUE
    /\ After.properties.on = TRUE

\* C2: level set to L in 1..100 while on is false: the handler stores on = true and
\* level = L, sends the on-command of the zone and nothing else, and leaves the level
\* command {0x4E, round(L/4)} to a timer; the timer's callback later sends exactly the
\* command it captured
C2_ImplicitPowerOn ==
    /\ (HostSet("level") /\ last.changed /\ last.value > 0 /\ Before.properties.on = FALSE) =>
          /\ After.properties.on = TRUE
          /\ After.properties.level = last.value
          /\ Messages = << <<onCodes[After.config.zone + 1], 0, 85>> >>
          /\ Len(Armed) = 1
          /\ Armed[1].id = last.id
          /\ Armed[1].cmd.code = 78
          /\ IsRound(Armed[1].cmd.param, last.value)
    /\ (last.op = "timer" /\ last.outcome = "returned") =>
          /\ Messages = << <<last.value.code, last.value.param, 85>> >>
          /\ sent[1].id = last.id
          /\ Len(pending) = last.npending - 1

\* C2 witness: scenario 1 has run to its end: the timer of level 50 has fired and the
\* store reads on = true, level = 50
C2_Witness ==
    /\ last.op = "timer" /\ last.outcome = "returned"
    /\ Messages = << <<78, 13, 85>> >>
    /\ After.properties.on = TRUE
    /\ After.properties.level = 50
    /\ bridge[last.id].power = "on"

\* C3 (as claimed): commands of one device go out in the order of their mutations: a
\* handler never sends a datagram of a mutation while the timer of an earlier mutation
\* of the same device is still pending
C3_OrderedPerDevice ==
    \A i \in 1 .. Len(sent), j \in 1 .. Len(pending) :
        pending[j].id = sent[i].id => pending[j].mut >= sent[i].mut

\* C4 (as claimed): a change of color to a parseable color outside the palette sends no
\* datagram and does not arm the echo-guard flag
C4_OutOfPaletteDropped ==
    (HostSet("color") /\ last.changed /\ last.outcome = "resolved"
        /\ cssToCmd(last.value, After.config.zone) = null) =>
        /\ sent = <<>>
        /\ After.recentlyUpdated = Before.recentlyUpdated

\* C5: level changed to 0 while on is true: on is stored false, exactly the off-command
\* of the zone is sent, no timer is armed and no 0x4E command goes out
C5_LevelZeroTurnsOff ==
    (HostSet("level") /\ last.changed /\ last.value = 0 /\ Before.properties.on = TRUE) =>
        /\ After.properties.on = FALSE
        /\ After.properties.level = 0
        /\ Messages = << <<offCodes[After.config.zone + 1], 0, 85>> >>
        /\ Armed = <<>>

\* C5 witness: scenario 2: level 50 and on, then level set to 0
C5_Witness ==
    /\ HostSet("level") /\ last.changed /\ last.value = 0
    /\ Before.properties.on = TRUE
    /\ Before.properties.level = 50
    /\ After.properties.on = FALSE
    /\ bridge[last.id].power = "off"

\* C6 (as claimed): every accepted mutation whose promise resolves causes exactly one
\* command, or exactly the pair on-command now and level command by timer; never none
C6_OneOrPair ==
    (last.op = "setValue" /\ last.changed /\ last.outcome = "resolved") =>
        /\ Len(sent) = 1
        /\ Len(Armed) <= 1
        /\ Len(Armed) = 1 =>
              /\ sent[1].message[1] = onCodes[After.config.zone + 1]
              /\ Armed[1].cmd.code = 78

\* C6 (amended): what each mutation hands to the socket and leaves to a timer.  on: one
\* datagram.  level L > 0: one datagram, and one timer if on was false.  level 0: one
\* datagram if on was true, none if it was false.  color: one datagram if the string
\* parses, none if it does not.  A no-op: nothing.  A timer's callback sends at most one
\* datagram (none if the device has been removed) and arms nothing.
C6_CommandCount ==
    /\ last.op = "setValue" =>
          IF ~last.changed THEN Len(sent) = 0 /\ Len(Armed) = 0
          ELSE CASE last.name = "on" -> Len(sent) = 1 /\ Len(Armed) = 0
                 [] last.name = "level" ->
                      IF last.value = 0
                      THEN /\ Len(sent) = (IF Before.properties.on THEN 1 ELSE 0)
                           /\ Len(Armed) = 0
                      ELSE /\ Len(sent) = 1
                           /\ Len(Armed) = (IF Before.properties.on THEN 0 ELSE 1)
                 [] last.name = "color" ->
                      /\ Len(sent) = (IF rgbNumber(last.value) = ParseFailure THEN 0 ELSE 1)
                      /\ Len(Armed) = 0
    /\ last.op = "timer" =>
          /\ Len(sent) = (IF last.id \in DOMAIN devices THEN 1 ELSE 0)
          /\ Len(pending) = last.npending - 1

\* C6 witness: level changed to 0 while on is already false: accepted, and nothing sent
C6_Witness ==
    /\ HostSet("level") /\ last.changed /\ last.value = 0
    /\ Before.properties.on = FALSE
    /\ last.outcome = "resolved"
    /\ sent = <<>>

\* the tables of the protocol, zone 0 first
ProtocolOnCodes == <<66, 69, 71, 73, 75>>
ProtocolOffCodes == <<65, 70, 72, 74, 76>>

\* C7: every accepted change of on (by the host, or by a level mutation) sends exactly
\* one datagram: the on-code or off-code of the device's zone, param 0; a host change of
\* on arms no timer and leaves the stored level and color alone
C7_OnOffToggle ==
    (last.op = "setValue" /\ Before.properties.on # After.properties.on) =>
        /\ Messages = << << IF After.properties.on
                            THEN ProtocolOnCodes[After.config.zone + 1]
                            ELSE ProtocolOffCodes[After.config.zone + 1], 0, 85 >> >>
        /\ last.name = "on" =>
              /\ Armed = <<>>
              /\ After.properties.level = Before.properties.level
              /\ After.properties.color = Before.properties.color

\* C7 witness: a device of zone 4 at level 50 and red is switched off: 0x4C goes out
C7_Witness ==
    /\ HostSet("on") /\ last.changed /\ last.value = FALSE
    /\ After.config.zone = 4
    /\ After.properties.level = 50
    /\ After.properties.color = "#ff0000"
    /\ Messages = << <<76, 0, 85>> >>

\* C8: a handler that hands a datagram for a device to the socket leaves the device's
\* recentlyUpdated true, and no handler turns a registered device's recentlyUpdated
\* from true to false
C8_EchoGuard ==
    /\ \A i \in 1 .. Len(sent) :
          sent[i].id \in DOMAIN devices /\ devices[sent[i].id].recentlyUpdated
    /\ \A d \in (DOMAIN devices) \cap (DOMAIN last.before) :
          last.before[d].recentlyUpdated => devices[d].recentlyUpdated

\* C8 witness: a no-op mutation on a device whose flag was set by an earlier send
C8_Witness ==
    /\ last.op = "setValue" /\ ~last.changed
    /\ sent = <<>>
    /\ Before.recentlyUpdated
    /\ After.recentlyUpdated

\* the level and zone of the last levelToCmd call, and what it returned
CalledLevel == last.value.level
Returned == last.result

\* C9 (as claimed): levelToCmd gives 0x4E with param round(level/4), except a dedicated
\* off code with param 0 for level 0 and a dedicated full-on code with param 0 for 100
C9_DedicatedCodes ==
    last.op = "levelToCmd" =>
        CASE CalledLevel = 0 ->
               /\ Get(Returned, "code") = ProtocolOffCodes[last.value.zone + 1]
               /\ Get(Returned, "param") = 0
          [] CalledLevel = 100 ->
               /\ Get(Returned, "code") = ProtocolOnCodes[last.value.zone + 1]
               /\ Get(Returned, "param") = 0
          [] OTHER ->
               /\ Get(Returned, "code") = 78
               /\ IsRound(Get(Returned, "param"), CalledLevel)

\* C9 (amended): for every level in 1..100, 100 included, levelToCmd gives code 0x4E
\* with param round(level/4); for level 0 it gives an object with no code and no param
C9_LevelCodec ==
    last.op = "levelToCmd" =>
        IF CalledLevel = 0
        THEN DOMAIN Returned = {}
        ELSE /\ DOMAIN Returned = {"code", "param"}
             /\ Returned.code = 78
             /\ IsRound(Returned.param, CalledLevel)

\* C9 witness: level 100 gives the dim code with param 25
C9_Witness ==
    /\ last.op = "levelToCmd"
    /\ CalledLevel = 100
    /\ Returned = [code |-> 78, param |-> 25]

\* C10 (as claimed): a dim command (0x4E) has its param in 1..25
C10_ParamFromOne ==
    (last.op = "levelToCmd" /\ Get(Returned, "code") = 78) =>
        Returned.param \in 1 .. 25

\* C10 (amended): a dim command (0x4E) has its param in 0..25, and param 0 exactly for
\* level 1; levels 2..100 give 1..25
C10_ParamRange ==
    (last.op = "levelToCmd" /\ Get(Returned, "code") = 78) =>
        /\ Returned.param \in 0 .. 25
        /\ Returned.param = 0 <=> CalledLevel = 1

\* C10 witness: level 1 gives the dim code with param 0
C10_Witness ==
    /\ last.op = "levelToCmd"
    /\ CalledLevel = 1
    /\ Returned = [code |-> 78, param |-> 0]

\* the palette of the protocol: <<RGB value, param of the 0x40 command>>
ProtocolPalette ==
    { <<128, 0>>, <<255, 186>>, <<32768, 122>>, <<65280, 84>>, <<65535, 133>>,
      <<8388736, 217>>, <<16711680, 255>>, <<16753920, 30>>, <<16776960, 59>> }
ProtocolWhiteCodes == <<194, 197, 199, 201, 203>>
ProtocolWhite == 16777215

\* C11: cssToCmd maps the nine colored palette entries to 0x40 with their param in every
\* zone, white to the white code of the zone with param 0, black and every other RGB
\* value to null
C11_PaletteCodec ==
    last.op = "cssToCmd" =>
        LET n == rgbNumber(last.value.cssColor)
            z == last.value.zone
        IN  /\ \A e \in ProtocolPalette :
                  n = e[1] => Returned = [code |-> 64, param |-> e[2]]
            /\ n = ProtocolWhite => Returned = [code |-> ProtocolWhiteCodes[z + 1], param |-> 0]
            /\ (n # ProtocolWhite /\ \A e \in ProtocolPalette : n # e[1]) => Returned = null

\* C11 witness: the keyword white in zone 3 gives 0xC9
C11_Witness ==
    /\ last.op = "cssToCmd"
    /\ last.value = [cssColor |-> "white", zone |-> 3]
    /\ Returned = [code |-> 201, param |-> 0]

\* the commands the codec and the tables of zone z produce, as <<code, param>>
ProtocolCommands(z) ==
    {<<ProtocolOnCodes[z + 1], 0>>, <<ProtocolOffCodes[z + 1], 0>>,
     <<ProtocolWhiteCodes[z + 1], 0>>}
    \cup {<<78, p>> : p \in 0 .. 25}
    \cup {<<64, e[2]>> : e \in ProtocolPalette}

\* C12 (as claimed): every datagram handed to the socket is <<code, param, 0x55>> with
\* code and param those of a command of the codec or of the on/off tables of the
\* device's zone, and goes to the bridge address and port of the device's configuration
C12_WireFormat ==
    \A i \in 1 .. Len(sent) :
        LET d == sent[i]
            dev == devices[d.id]
        IN  /\ Len(d.message) = 3
            /\ d.message[3] = 85
            /\ <<d.message[1], d.message[2]>> \in ProtocolCommands(dev.config.zone)
            /\ d.address = dev.config.bridgeIP
            /\ d.port = dev.config.bridgePort

\* C13: setValue stores the value whether or not it changed; it notifies exactly when
\* the value changed; the notification, and the command computed in it, see the new
\* value; a promise that resolves gives the value the cache then holds
C13_CommitOrdering ==
    last.op = "setValue" =>
        /\ After.properties[last.name] = last.value
        /\ (last.notes # <<>>) <=> last.changed
        /\ last.changed =>
              /\ last.notes[1] = [id |-> last.id, name |-> last.name, value |-> last.value]
              /\ (last.name = "level" /\ last.value > 0 /\ Before.properties.on) =>
                    /\ Len(sent) = 1
                    /\ sent[1].message[1] = 78
                    /\ IsRound(sent[1].message[2], last.value)
              /\ last.name = "on" =>
                    /\ Len(sent) = 1
                    /\ sent[1].message[1] =
                          (IF last.value THEN ProtocolOnCodes[After.config.zone + 1]
                           ELSE ProtocolOffCodes[After.config.zone + 1])
        /\ last.outcome = "resolved" => last.result = After.properties[last.name]

\* C13 witness: level 1 is replaced by 50 while on: the notification carries 50 and
\* the command is {0x4E, 13}
C13_Witness ==
    /\ HostSet("level") /\ last.changed /\ last.value = 50
    /\ Before.properties.level = 1
    /\ Before.properties.on
    /\ last.notes = <<[id |-> last.id, name |-> "level", value |-> 50]>>
    /\ Messages = << <<78, 13, 85>> >>
    /\ last.result = 50

\* C14: addDevice with a registered id and removeDevice with an unregistered id are
\* rejected, leave the registry and its devices as they were and send nothing; no other
\* addDevice or removeDevice call is rejected
C14_RegistryValidation ==
    /\ last.op = "addDevice" =>
          IF last.id \in DOMAIN last.before
          THEN last.outcome = "rejected" /\ devices = last.before /\ sent = <<>>
          ELSE last.outcome = "resolved"
    /\ last.op = "removeDevice" =>
          IF last.id \notin DOMAIN last.before
          THEN last.outcome = "rejected" /\ devices = last.before /\ sent = <<>>
          ELSE last.outcome = "resolved"

\* C14 witness: addDevice is rejected for a device that is on at level 50 with its
\* flag set, and the device is still so
C14_Witness ==
    /\ last.op = "addDevice" /\ last.outcome = "rejected"
    /\ After.properties.level = 50
    /\ After.properties.on
    /\ After.recentlyUpdated

\* C15 (as claimed): every socket a send opens is closed in the end: none is left that
\* no callback will ever close
C15_NoSocketLeftOpen == leaked = 0

\* C16 (as claimed): no handler ends in an uncaught exception or an unhandled rejection,
\* and the only promises rejected are those of addDevice and removeDevice
C16_NoUncaughtFailure ==
    /\ unhandled = 0
    /\ last.outcome # "threw"
    /\ last.outcome = "rejected" => last.op \in {"addDevice", "removeDevice"}

\* C17 (as claimed): the delayed level command is transmitted, once, whatever happened
\* during the delay: when the timer's callback has run, exactly the command it captured
\* has been handed to the socket
C17_DelayedSendTransmitted ==
    last.op = "timer" =>
        /\ Len(sent) = 1
        /\ sent[1].message = <<last.value.code, last.value.param, 85>>

\* C18 (as claimed): a 0x4E command goes out only while the device's stored on is true
\* and the latest on/off command sent for it is the on-command
C18_DimOnlyWhileOn ==
    \A i \in 1 .. Len(sent) :
        sent[i].message[1] = 78 =>
            /\ devices[sent[i].id].properties.on
            /\ bridge[sent[i].id].power = "on"

\* a timer of device d is armed and has not fired
HasPending(d) == \E j \in 1 .. Len(pending) : pending[j].id = d

\* C19 (as claimed): with no delayed send pending and a stored level above 0, the latest
\* 0x4E command sent for the device has param round(level / 4)
C19_QuiescentLevel ==
    \A d \in DOMAIN devices :
        (~HasPending(d) /\ devices[d].properties.level > 0) =>
            /\ bridge[d].dim # Undefined
            /\ IsRound(bridge[d].dim, devices[d].properties.level)

\* the on, off and white codes of zone z
ZoneCodes(z) == {onCodes[z + 1], offCodes[z + 1], whiteCodes[z + 1]}

\* C20: a mutation of device A, and the delayed send it scheduled, leave every other
\* device's record (stored properties, recentlyUpdated) as it was, and every datagram
\* they produce is A's: addressed to A's bridge endpoint, never with a code of a zone
\* other than A's
C20_DeviceIndependence ==
    last.op \in {"setValue", "timer"} =>
        /\ \A b \in (DOMAIN devices) \ {last.id} :
               b \in DOMAIN last.before /\ devices[b] = last.before[b]
        /\ DOMAIN devices = DOMAIN last.before
        /\ \A i \in 1 .. Len(sent) :
               /\ sent[i].id = last.id
               /\ last.id \in DOMAIN devices
               /\ sent[i].address = devices[last.id].config.bridgeIP
               /\ sent[i].port = devices[last.id].config.bridgePort
               /\ \A z \in Zones \ {devices[last.id].config.zone} :
                      sent[i].message[1] \notin ZoneCodes(z)

\* the delayed level command of bulb 0 goes to its own bridge while bulb 1, on another
\* bridge, keeps the level it was given
C20_Witness ==
    /\ last.op = "timer"
    /\ last.id = DeviceId(0)
    /\ Len(sent) = 1
    /\ sent[1].address = "10.0.0.1"
    /\ bulbs[2].bridgeIP = "10.0.0.2"
    /\ DeviceId(1) \in DOMAIN devices
    /\ devices[DeviceId(1)].properties.level = 50
    /\ devices[DeviceId(1)].recentlyUpdated

====
